---- MODULE Spec2Model ----
(***************************************************************************)
(* DmMruSwitch: the most-recently-used history of direct-message channels  *)
(* and the Ctrl+Tab cycle session of src/index.ts.                         *)
(*                                                                         *)
(* The module-level variables of the plugin are the state.  Every handler  *)
(* of the plugin (key events, flux events, the settings button, start and  *)
(* stop) is one action.  The functions of the plugin are operators on a    *)
(* record of the module-level variables, so that a handler that calls      *)
(* several functions is the composition of their operators.                *)
(***************************************************************************)
EXTENDS Integers, Sequences, FiniteSets, TLC

\* src/index.ts:15 sets MAX_HISTORY to 50; the model scales it down so that
\* a full list and an eviction are reachable with the channels below.
MAX_HISTORY == 3

\* the longest persisted array handed to start()
MaxSavedLen == 2

\* the most channels missing from the directory at one time
MaxMissing == 1

\* the channels of the directory: three direct or group conversations and
\* one guild text channel
DmChannels == {"A", "B", "C"}
AllChannels == DmChannels \cup {"G"}

\* a channel id that is null, undefined or the empty string (all falsy)
NoChannel == ""

VARIABLES
    mruDmChannelIds,          \* the History List, most recent first
    isCyclingSessionActive,
    suppressMruWhileCycling,
    cycleSnapshot,
    cycleIndex,
    channelStore,             \* the channels ChannelStore currently knows
    selectedChannel,          \* SelectedChannelStore.getChannelId()
    instantSwitch,            \* settings.store.instantSwitch
    visualStyle,              \* settings.store.visualStyle
    overlayMode,              \* settings.store.overlayMode
    overlayRowLength,         \* settings.store.overlayRowLength
    pc,                       \* "stopped", "loading" (start() is suspended at
                              \* its await) or "running" (listeners attached)
    lastOp,                   \* the handler that ran last, with its argument
    promoted,                 \* the ids the last handler passed to pushChannelToFront
    navigated,                \* the ids the last handler passed to transitionToChannel
    rendered,                 \* what the last handler gave the overlay or the toast
    startMru,                 \* the History List at the start of a scripted run
    script                    \* the operations of a scripted run so far

vars == <<mruDmChannelIds, isCyclingSessionActive, suppressMruWhileCycling,
          cycleSnapshot, cycleIndex, channelStore, selectedChannel,
          instantSwitch, visualStyle, overlayMode, overlayRowLength, pc,
          lastOp, promoted, navigated, rendered, startMru, script>>

\* the settings of the indicator
indicatorVars == <<visualStyle, overlayMode, overlayRowLength>>

envVars == <<channelStore, selectedChannel, instantSwitch, indicatorVars>>

\* the record of a scripted run; the plugin's own state machine leaves it alone
scriptVars == <<startMru, script>>

\* the host delivers flux events from the moment it has called start()
fluxSubscribed == pc \in {"loading", "running"}

\* the key listeners are attached at the end of start()
listening == pc = "running"

----------------------------------------------------------------------------
(* Helpers                                                                 *)

Range(s) == {s[i] : i \in 1..Len(s)}

Min(a, b) == IF a < b THEN a ELSE b

Max(a, b) == IF a > b THEN a ELSE b

\* a handler that calls neither renderOverlay nor showCycleToast
NoRender ==
    [kind |-> "none", items |-> <<>>, isActive |-> <<>>, currentPage |-> 0, pageCount |-> 0]

NoDuplicates(s) == \A i, j \in 1..Len(s) : i # j => s[i] # s[j]

\* Array.prototype.filter(id => id !== channelId)
FilterOut(s, channelId) ==
    LET keep(id) == id # channelId IN SelectSeq(s, keep)

\* the sequences over S of length at most n
SeqsUpTo(S, n) == UNION {[1..k -> S] : k \in 0..n}

\* the type of a channel, fixed per id
ChannelType(id) ==
    CASE id \in {"A", "B", "D"} -> "DM"
      [] id \in {"C"} -> "GROUP_DM"
      [] OTHER -> "GUILD_TEXT"

\* ChannelStore.hasChannel
hasChannel(id) == id \in channelStore

isDirectMessageChannel(channelId) ==
    IF channelId = NoChannel THEN FALSE
    ELSE IF ~hasChannel(channelId) THEN FALSE
    ELSE ChannelType(channelId) \in {"DM", "GROUP_DM"}

RECURSIVE sanitizeLoop(_, _, _)
sanitizeLoop(ids, i, result) ==
    IF i > Len(ids) THEN result
    ELSE LET id == ids[i] IN
         IF id = NoChannel \/ id \in Range(result) THEN sanitizeLoop(ids, i + 1, result)
         ELSE IF ~hasChannel(id) THEN sanitizeLoop(ids, i + 1, result)
         ELSE IF ~isDirectMessageChannel(id) THEN sanitizeLoop(ids, i + 1, result)
         ELSE LET pushed == Append(result, id) IN
              IF Len(pushed) >= MAX_HISTORY THEN pushed
              ELSE sanitizeLoop(ids, i + 1, pushed)

\* sanitizeHistory without the break at MAX_HISTORY
RECURSIVE sanitizeLoopNoBreak(_, _, _)
sanitizeLoopNoBreak(ids, i, result) ==
    IF i > Len(ids) THEN result
    ELSE LET id == ids[i] IN
         IF id = NoChannel \/ id \in Range(result) THEN sanitizeLoopNoBreak(ids, i + 1, result)
         ELSE IF ~hasChannel(id) THEN sanitizeLoopNoBreak(ids, i + 1, result)
         ELSE IF ~isDirectMessageChannel(id) THEN sanitizeLoopNoBreak(ids, i + 1, result)
         ELSE sanitizeLoopNoBreak(ids, i + 1, Append(result, id))

sanitizeHistoryNoBreak(ids) == sanitizeLoopNoBreak(ids, 1, <<>>)

sanitizeHistory(ids) == sanitizeLoop(ids, 1, <<>>)

----------------------------------------------------------------------------
(* The functions of the plugin, on the record of its module-level state    *)

\* the module-level state at the start of a handler: nothing promoted and
\* nothing navigated yet
Now ==
    [mru |-> mruDmChannelIds,
     active |-> isCyclingSessionActive,
     suppress |-> suppressMruWhileCycling,
     snapshot |-> cycleSnapshot,
     index |-> cycleIndex,
     promoted |-> <<>>,
     navigated |-> <<>>,
     rendered |-> NoRender]

transitionToChannel(s, id) == [s EXCEPT !.navigated = Append(@, id)]

\* Array.prototype.slice(from, to), on a sequence indexed from 1
Slice(q, from, to) == SubSeq(q, from + 1, Min(to, Len(q)))

\* OverlayContent that marks the card at the cursor's place within a page
OverlayContentActiveByPlace(s) ==
    LET mode == overlayMode
        maxCount == Max(3, Min(7, overlayRowLength))
        pageSize == IF mode = "current" THEN 1 ELSE maxCount
        totalSlots == IF mode = "current" THEN 1 ELSE pageSize * 2
        visibleList == IF mode = "current"
                       THEN <<s.snapshot[s.index + 1]>>
                       ELSE Slice(s.snapshot, 0, totalSlots)
        pageCount == IF mode # "current"
                     THEN (IF Len(visibleList) > pageSize THEN 2 ELSE 1)
                     ELSE 1
        currentPage == IF mode # "current"
                       THEN Min(pageCount - 1, (IF s.index >= 0 THEN s.index ELSE 0) \div pageSize)
                       ELSE 0
        start == currentPage * pageSize
        end == Min(start + pageSize, Len(visibleList))
        pageItems == Slice(visibleList, start, end)
    IN [kind |-> "overlay",
        items |-> pageItems,
        isActive |-> [i \in 1..Len(pageItems) |-> i - 1 = s.index % pageSize],
        currentPage |-> currentPage,
        pageCount |-> pageCount]

\* OverlayContent without the cap of currentPage at the last page
OverlayContentNoPageCap(s) ==
    LET mode == overlayMode
        maxCount == Max(3, Min(7, overlayRowLength))
        pageSize == IF mode = "current" THEN 1 ELSE maxCount
        totalSlots == IF mode = "current" THEN 1 ELSE pageSize * 2
        visibleList == IF mode = "current"
                       THEN <<s.snapshot[s.index + 1]>>
                       ELSE Slice(s.snapshot, 0, totalSlots)
        pageCount == IF mode # "current"
                     THEN (IF Len(visibleList) > pageSize THEN 2 ELSE 1)
                     ELSE 1
        currentPage == IF mode # "current"
                       THEN (IF s.index >= 0 THEN s.index ELSE 0) \div pageSize
                       ELSE 0
        start == currentPage * pageSize
        end == Min(start + pageSize, Len(visibleList))
        pageItems == Slice(visibleList, start, end)
    IN [kind |-> "overlay",
        items |-> pageItems,
        isActive |-> [i \in 1..Len(pageItems) |-> pageItems[i] = s.snapshot[s.index + 1]],
        currentPage |-> currentPage,
        pageCount |-> pageCount]

\* the page of the overlay: the cards of the page with their isActive flag,
\* the page and the number of pages (the dots)
OverlayContent(s) ==
    LET mode == overlayMode
        maxCount == Max(3, Min(7, overlayRowLength))
        pageSize == IF mode = "current" THEN 1 ELSE maxCount
        totalSlots == IF mode = "current" THEN 1 ELSE pageSize * 2
        visibleList == IF mode = "current"
                       THEN <<s.snapshot[s.index + 1]>>
                       ELSE Slice(s.snapshot, 0, totalSlots)
        pageCount == IF mode # "current"
                     THEN (IF Len(visibleList) > pageSize THEN 2 ELSE 1)
                     ELSE 1
        currentPage == IF mode # "current"
                       THEN Min(pageCount - 1,
                                (IF s.index >= 0 THEN s.index ELSE 0) \div pageSize)
                       ELSE 0
        start == currentPage * pageSize
        end == Min(start + pageSize, Len(visibleList))
        pageItems == Slice(visibleList, start, end)
    IN [kind |-> "overlay",
        items |-> pageItems,
        isActive |-> [i \in 1..Len(pageItems) |-> pageItems[i] = s.snapshot[s.index + 1]],
        currentPage |-> currentPage,
        pageCount |-> pageCount]

renderOverlay(s) ==
    IF visualStyle # "overlay" THEN s
    ELSE IF ~s.active THEN s
    ELSE [s EXCEPT !.rendered = OverlayContent(s)]

showCycleToast(s) ==
    IF visualStyle # "toast" THEN s
    ELSE [s EXCEPT !.rendered = [kind |-> "toast",
                                 items |-> <<s.snapshot[s.index + 1]>>,
                                 isActive |-> <<TRUE>>,
                                 currentPage |-> 0,
                                 pageCount |-> 1]]

\* stepCycle from the check of the target onwards
showTarget(s, targetId) ==
    IF ~hasChannel(targetId) THEN s
    ELSE LET switched == IF instantSwitch THEN transitionToChannel(s, targetId) ELSE s
         IN IF visualStyle = "overlay" THEN renderOverlay(switched)
            ELSE IF visualStyle = "toast" THEN showCycleToast(switched)
            ELSE switched

\* pushChannelToFront without the filter of the existing occurrence
pushChannelToFrontNoFilter(s, channelId) ==
    LET unshifted == <<channelId>> \o s.mru
        truncated == IF Len(unshifted) > MAX_HISTORY
                     THEN SubSeq(unshifted, 1, MAX_HISTORY)
                     ELSE unshifted
    IN [s EXCEPT !.mru = truncated, !.promoted = Append(@, channelId)]

\* pushChannelToFront without the cut to MAX_HISTORY
pushChannelToFrontNoTruncate(s, channelId) ==
    [s EXCEPT !.mru = <<channelId>> \o FilterOut(s.mru, channelId),
              !.promoted = Append(@, channelId)]

\* pushChannelToFront with push in place of unshift
pushChannelToFrontPush(s, channelId) ==
    LET pushed == Append(FilterOut(s.mru, channelId), channelId)
        truncated == IF Len(pushed) > MAX_HISTORY
                     THEN SubSeq(pushed, 1, MAX_HISTORY)
                     ELSE pushed
    IN [s EXCEPT !.mru = truncated, !.promoted = Append(@, channelId)]

pushChannelToFront(s, channelId) ==
    LET unshifted == <<channelId>> \o FilterOut(s.mru, channelId)
        truncated == IF Len(unshifted) > MAX_HISTORY
                     THEN SubSeq(unshifted, 1, MAX_HISTORY)
                     ELSE unshifted
    IN [s EXCEPT !.mru = truncated, !.promoted = Append(@, channelId)]

\* beginCycleSession without the assignment to suppressMruWhileCycling
beginCycleSessionNoSuppress(s) ==
    IF s.active THEN s
    ELSE LET currentId == selectedChannel
             front == IF isDirectMessageChannel(currentId) THEN <<currentId>> ELSE <<>>
         IN [s EXCEPT !.active = TRUE,
                      !.snapshot = sanitizeHistory(front \o s.mru),
                      !.index = 0]

\* beginCycleSession without the guard on isCyclingSessionActive
beginCycleSessionReentrant(s) ==
    LET currentId == selectedChannel
        front == IF isDirectMessageChannel(currentId) THEN <<currentId>> ELSE <<>>
    IN [s EXCEPT !.active = TRUE,
                 !.suppress = TRUE,
                 !.snapshot = sanitizeHistory(front \o s.mru),
                 !.index = 0]

\* beginCycleSession that leaves the current conversation out of the snapshot
beginCycleSessionNoCurrent(s) ==
    IF s.active THEN s
    ELSE [s EXCEPT !.active = TRUE,
                   !.suppress = TRUE,
                   !.snapshot = sanitizeHistory(s.mru),
                   !.index = 0]

beginCycleSession(s) ==
    IF s.active THEN s
    ELSE LET currentId == selectedChannel
             front == IF isDirectMessageChannel(currentId) THEN <<currentId>> ELSE <<>>
         IN [s EXCEPT !.active = TRUE,
                      !.suppress = TRUE,
                      !.snapshot = sanitizeHistory(front \o s.mru),
                      !.index = 0]

\* stepCycle that sanitizes the snapshot again before it moves the cursor
stepCycleResnapshot(s, direction) ==
    IF ~s.active \/ Len(s.snapshot) = 0 THEN s
    ELSE LET fresh == sanitizeHistory(s.snapshot)
             total == Len(fresh)
         IN IF total <= 1 THEN [s EXCEPT !.snapshot = fresh]
            ELSE LET newIndex == (s.index + direction + total) % total
                     targetId == fresh[newIndex + 1]
                     moved == [s EXCEPT !.snapshot = fresh, !.index = newIndex]
                 IN showTarget(moved, targetId)

\* stepCycle that stops at the ends of the snapshot
stepCycleClamp(s, direction) ==
    IF ~s.active \/ Len(s.snapshot) = 0 THEN s
    ELSE LET total == Len(s.snapshot) IN
         IF total <= 1 THEN s
         ELSE LET newIndex == Max(0, Min(total - 1, s.index + direction))
                  targetId == s.snapshot[newIndex + 1]
                  moved == [s EXCEPT !.index = newIndex]
              IN showTarget(moved, targetId)

\* stepCycle that moves once more when the target no longer resolves
stepCycleSkipDead(s, direction) ==
    IF ~s.active \/ Len(s.snapshot) = 0 THEN s
    ELSE LET total == Len(s.snapshot) IN
         IF total <= 1 THEN s
         ELSE LET firstIndex == (s.index + direction + total) % total
                  newIndex == IF hasChannel(s.snapshot[firstIndex + 1])
                              THEN firstIndex
                              ELSE (firstIndex + direction + total) % total
                  targetId == s.snapshot[newIndex + 1]
                  moved == [s EXCEPT !.index = newIndex]
              IN showTarget(moved, targetId)

stepCycle(s, direction) ==
    IF ~s.active \/ Len(s.snapshot) = 0 THEN s
    ELSE LET total == Len(s.snapshot) IN
         IF total <= 1 THEN s
         ELSE LET newIndex == (s.index + direction + total) % total
                  targetId == s.snapshot[newIndex + 1]
                  moved == [s EXCEPT !.index = newIndex]
              IN showTarget(moved, targetId)

\* endCycleSession that commits the anchor of the snapshot, not the cursor
endCycleSessionAnchor(s) ==
    IF ~s.active THEN s
    ELSE LET idle == [s EXCEPT !.active = FALSE, !.suppress = FALSE]
             committed ==
                 IF s.index >= 0 /\ s.index < Len(s.snapshot)
                 THEN LET selected == s.snapshot[1]
                          switched == IF ~instantSwitch
                                      THEN transitionToChannel(idle, selected)
                                      ELSE idle
                      IN pushChannelToFront(switched, selected)
                 ELSE idle
         IN [committed EXCEPT !.snapshot = <<>>, !.index = -1]

\* endCycleSession that navigates whatever instantSwitch says
endCycleSessionAlwaysSwitch(s) ==
    IF ~s.active THEN s
    ELSE LET idle == [s EXCEPT !.active = FALSE, !.suppress = FALSE]
             committed ==
                 IF s.index >= 0 /\ s.index < Len(s.snapshot)
                 THEN LET selected == s.snapshot[s.index + 1]
                          switched == transitionToChannel(idle, selected)
                      IN pushChannelToFront(switched, selected)
                 ELSE idle
         IN [committed EXCEPT !.snapshot = <<>>, !.index = -1]

\* endCycleSession without the assignment to suppressMruWhileCycling
endCycleSessionKeepSuppress(s) ==
    IF ~s.active THEN s
    ELSE LET idle == [s EXCEPT !.active = FALSE]
             committed ==
                 IF s.index >= 0 /\ s.index < Len(s.snapshot)
                 THEN LET selected == s.snapshot[s.index + 1]
                          switched == IF ~instantSwitch
                                      THEN transitionToChannel(idle, selected)
                                      ELSE idle
                      IN pushChannelToFront(switched, selected)
                 ELSE idle
         IN [committed EXCEPT !.snapshot = <<>>, !.index = -1]

\* endCycleSession that leaves the snapshot and the cursor as they are
endCycleSessionKeepSnapshot(s) ==
    IF ~s.active THEN s
    ELSE LET idle == [s EXCEPT !.active = FALSE, !.suppress = FALSE]
         IN IF s.index >= 0 /\ s.index < Len(s.snapshot)
            THEN LET selected == s.snapshot[s.index + 1]
                     switched == IF ~instantSwitch
                                 THEN transitionToChannel(idle, selected)
                                 ELSE idle
                 IN pushChannelToFront(switched, selected)
            ELSE idle

endCycleSession(s) ==
    IF ~s.active THEN s
    ELSE LET idle == [s EXCEPT !.active = FALSE, !.suppress = FALSE]
             committed ==
                 IF s.index >= 0 /\ s.index < Len(s.snapshot)
                 THEN LET selected == s.snapshot[s.index + 1]
                          switched == IF ~instantSwitch
                                      THEN transitionToChannel(idle, selected)
                                      ELSE idle
                      IN pushChannelToFront(switched, selected)
                 ELSE idle
         IN [committed EXCEPT !.snapshot = <<>>, !.index = -1]

\* clearMru that leaves the session's snapshot and cursor alone
clearMruKeepSession(s) == [s EXCEPT !.mru = <<>>]

\* settings.clearMru.onClick
clearMru(s) == [s EXCEPT !.mru = <<>>, !.snapshot = <<>>, !.index = -1]

\* GUILD_SELECT that goes back to the head of the snapshot
guildSelectReset(s, guildId) ==
    IF ~s.active THEN s
    ELSE IF guildId # NoChannel
         THEN IF Len(s.snapshot) > 0
              THEN transitionToChannel([s EXCEPT !.index = 0], s.snapshot[1])
              ELSE s
         ELSE s

\* GUILD_SELECT that closes the session when the host leaves the conversations
guildSelectAbort(s, guildId) ==
    IF ~s.active THEN s
    ELSE IF guildId # NoChannel
         THEN [s EXCEPT !.active = FALSE, !.suppress = FALSE,
                        !.snapshot = <<>>, !.index = -1]
         ELSE s

\* flux.GUILD_SELECT; guildId is NoChannel for a null guild
guildSelect(s, guildId) ==
    IF ~s.active THEN s
    ELSE IF guildId # NoChannel
         THEN IF s.index >= 0 /\ s.index < Len(s.snapshot)
              THEN transitionToChannel(s, s.snapshot[s.index + 1])
              ELSE s
         ELSE s

\* CHANNEL_SELECT without the check of suppressMruWhileCycling
channelSelectUnsuppressed(s, channelId) ==
    IF channelId = NoChannel THEN s
    ELSE IF ~isDirectMessageChannel(channelId) THEN s
    ELSE pushChannelToFront(s, channelId)

\* flux.CHANNEL_SELECT
channelSelect(s, channelId) ==
    IF s.suppress THEN s
    ELSE IF channelId = NoChannel THEN s
    ELSE IF ~isDirectMessageChannel(channelId) THEN s
    ELSE pushChannelToFront(s, channelId)

\* start(), from the completion of DataStore.get onwards
startLoaded(s, isArray, saved) ==
    LET loaded == [s EXCEPT !.mru = IF isArray THEN sanitizeHistory(saved) ELSE <<>>]
        current == selectedChannel
    IN IF isDirectMessageChannel(current) THEN pushChannelToFront(loaded, current)
       ELSE loaded

\* stop()
stopPlugin(s) ==
    [s EXCEPT !.active = FALSE, !.suppress = FALSE, !.snapshot = <<>>, !.index = -1]

\* onKeyDown that only opens the session on the first press
keyDownBeginOnly(s, shiftKey) ==
    IF ~s.active THEN beginCycleSession(s)
    ELSE stepCycle(s, IF shiftKey THEN -1 ELSE 1)

\* onKeyDown with Ctrl held and key Tab
keyDown(s, shiftKey) ==
    LET begun == IF ~s.active THEN beginCycleSession(s) ELSE s
    IN stepCycle(begun, IF shiftKey THEN -1 ELSE 1)

----------------------------------------------------------------------------
(* The state machine                                                       *)

\* the handler leaves the module-level state as the record s
Becomes(s) ==
    /\ mruDmChannelIds' = s.mru
    /\ isCyclingSessionActive' = s.active
    /\ suppressMruWhileCycling' = s.suppress
    /\ cycleSnapshot' = s.snapshot
    /\ cycleIndex' = s.index
    /\ promoted' = s.promoted
    /\ navigated' = s.navigated
    /\ rendered' = s.rendered

Init ==
    /\ mruDmChannelIds = <<>>
    /\ isCyclingSessionActive = FALSE
    /\ suppressMruWhileCycling = FALSE
    /\ cycleSnapshot = <<>>
    /\ cycleIndex = -1
    /\ channelStore = AllChannels
    /\ selectedChannel \in AllChannels \cup {NoChannel}
    /\ instantSwitch = TRUE
    /\ visualStyle = "overlay"
    /\ overlayMode = "row"
    /\ overlayRowLength = 5
    /\ pc = "stopped"
    /\ lastOp = <<"init", NoChannel>>
    /\ promoted = <<>>
    /\ navigated = <<>>
    /\ rendered = NoRender
    /\ startMru = <<>>
    /\ script = <<>>

\* the host starts the plugin: start() runs up to its await, and the host
\* subscribes the flux handlers
Start ==
    /\ pc = "stopped"
    /\ pc' = "loading"
    /\ lastOp' = <<"start", NoChannel>>
    /\ Becomes(Now)
    /\ UNCHANGED envVars
    /\ UNCHANGED scriptVars

\* DataStore.get completes and start() runs to its end
StartLoaded ==
    /\ pc = "loading"
    /\ \E isArray \in BOOLEAN, saved \in SeqsUpTo(AllChannels \cup {NoChannel}, MaxSavedLen) :
          /\ Becomes(startLoaded(Now, isArray, saved))
          /\ lastOp' = <<"loaded", IF isArray THEN "array" ELSE "not-an-array">>
    /\ pc' = "running"
    /\ UNCHANGED envVars
    /\ UNCHANGED scriptVars

Stop ==
    /\ pc = "running"
    /\ Becomes(stopPlugin(Now))
    /\ pc' = "stopped"
    /\ lastOp' = <<"stop", NoChannel>>
    /\ UNCHANGED envVars
    /\ UNCHANGED scriptVars

Begin ==
    /\ listening
    /\ Becomes(beginCycleSession(Now))
    /\ lastOp' = <<"begin", NoChannel>>
    /\ UNCHANGED <<envVars, pc>>
    /\ UNCHANGED scriptVars

Step ==
    /\ listening
    /\ \E direction \in {1, -1} :
          /\ Becomes(stepCycle(Now, direction))
          /\ lastOp' = <<"step", IF direction = 1 THEN "forward" ELSE "backward">>
    /\ UNCHANGED <<envVars, pc>>
    /\ UNCHANGED scriptVars

\* onKeyUp for the released modifier
End ==
    /\ listening
    /\ Becomes(endCycleSession(Now))
    /\ lastOp' = <<"end", NoChannel>>
    /\ UNCHANGED <<envVars, pc>>
    /\ UNCHANGED scriptVars

KeyDown ==
    /\ listening
    /\ \E shiftKey \in BOOLEAN :
          /\ Becomes(keyDown(Now, shiftKey))
          /\ lastOp' = <<"keydown", IF shiftKey THEN "backward" ELSE "forward">>
    /\ UNCHANGED <<envVars, pc>>
    /\ UNCHANGED scriptVars

\* the CHANNEL_SELECT dispatch: SelectedChannelStore takes the new channel,
\* and the handler of the plugin runs if the host has subscribed it
ChannelSelect ==
    \E channelId \in AllChannels \cup {NoChannel} :
        /\ selectedChannel' = channelId
        /\ IF fluxSubscribed
           THEN Becomes(channelSelect(Now, channelId))
           ELSE Becomes(Now)
        /\ lastOp' = <<"CHANNEL_SELECT", channelId>>
        /\ UNCHANGED <<channelStore, instantSwitch, indicatorVars, pc>>
        /\ UNCHANGED scriptVars

GuildSelect ==
    /\ fluxSubscribed
    /\ \E guildId \in {NoChannel, "guild"} :
          /\ Becomes(guildSelect(Now, guildId))
          /\ lastOp' = <<"GUILD_SELECT", guildId>>
    /\ UNCHANGED <<envVars, pc>>
    /\ UNCHANGED scriptVars

ClearMru ==
    /\ Becomes(clearMru(Now))
    /\ lastOp' = <<"clear", NoChannel>>
    /\ UNCHANGED <<envVars, pc>>
    /\ UNCHANGED scriptVars

\* the directory loses a channel (a conversation is closed or deleted)
ChannelDelete ==
    \E id \in channelStore \cap DmChannels :
        /\ Cardinality(AllChannels \ channelStore) < MaxMissing
        /\ channelStore' = channelStore \ {id}
        /\ lastOp' = <<"env", NoChannel>>
        /\ Becomes(Now)
        /\ UNCHANGED <<selectedChannel, instantSwitch, indicatorVars, pc>>
        /\ UNCHANGED scriptVars

\* the directory gains a channel
ChannelCreate ==
    \E id \in AllChannels \ channelStore :
        /\ channelStore' = channelStore \cup {id}
        /\ lastOp' = <<"env", NoChannel>>
        /\ Becomes(Now)
        /\ UNCHANGED <<selectedChannel, instantSwitch, indicatorVars, pc>>
        /\ UNCHANGED scriptVars

\* the user toggles the instantSwitch setting
ToggleInstantSwitch ==
    /\ instantSwitch' = ~instantSwitch
    /\ lastOp' = <<"env", NoChannel>>
    /\ Becomes(Now)
    /\ UNCHANGED <<channelStore, selectedChannel, indicatorVars, pc>>
    /\ UNCHANGED scriptVars

\* the user picks another indicator style
SetVisualStyle ==
    /\ \E style \in {"overlay", "toast", "off"} \ {visualStyle} :
          visualStyle' = style
    /\ lastOp' = <<"env", NoChannel>>
    /\ Becomes(Now)
    /\ UNCHANGED <<channelStore, selectedChannel, instantSwitch,
                   overlayMode, overlayRowLength, pc>>
    /\ UNCHANGED scriptVars

Next ==
    \/ Start
    \/ StartLoaded
    \/ Stop
    \/ Begin
    \/ Step
    \/ End
    \/ KeyDown
    \/ ChannelSelect
    \/ GuildSelect
    \/ ClearMru
    \/ ChannelDelete
    \/ ChannelCreate
    \/ ToggleInstantSwitch
    \/ SetVisualStyle

Spec == Init /\ [][Next]_vars

----------------------------------------------------------------------------
(* One gesture, recorded: the session functions applied in the order       *)
(* begin, step (at most MaxSteps times), end, from any History List the    *)
(* plugin can hold, with the directory and the settings standing still     *)

\* the most steps of one recorded gesture
MaxSteps == 3

\* the duplicate-free sequences over S of length at most n
DistinctSeqsUpTo(S, n) == {q \in SeqsUpTo(S, n) : NoDuplicates(q)}

Last(q) == q[Len(q)]

\* the directory of a recorded gesture: one direct conversation more, so
\* that the current conversation and a full History List fill more than
\* MAX_HISTORY entries
GestureDms == DmChannels \cup {"D"}
GestureChannels == AllChannels \cup {"D"}

GestureInit ==
    /\ mruDmChannelIds \in DistinctSeqsUpTo(GestureDms, MAX_HISTORY)
    /\ isCyclingSessionActive = FALSE
    /\ suppressMruWhileCycling = FALSE
    /\ cycleSnapshot = <<>>
    /\ cycleIndex = -1
    /\ channelStore = GestureChannels
    /\ selectedChannel \in GestureChannels \cup {NoChannel}
    /\ instantSwitch \in BOOLEAN
    /\ visualStyle = "overlay"
    /\ overlayMode = "row"
    /\ overlayRowLength = 5
    /\ pc = "running"
    /\ lastOp = <<"init", NoChannel>>
    /\ promoted = <<>>
    /\ navigated = <<>>
    /\ rendered = NoRender
    /\ startMru = mruDmChannelIds
    /\ script = <<>>

GestureBegin ==
    /\ script = <<>>
    /\ Becomes(beginCycleSession(Now))
    /\ lastOp' = <<"begin", NoChannel>>
    /\ script' = <<"begin">>
    /\ UNCHANGED <<envVars, pc, startMru>>

GestureStep ==
    /\ script # <<>>
    /\ Last(script) # "end"
    /\ Cardinality({i \in 1..Len(script) : script[i] \in {"forward", "backward"}}) < MaxSteps
    /\ \E direction \in {1, -1} :
          LET name == IF direction = 1 THEN "forward" ELSE "backward" IN
          /\ Becomes(stepCycle(Now, direction))
          /\ lastOp' = <<"step", name>>
          /\ script' = Append(script, name)
    /\ UNCHANGED <<envVars, pc, startMru>>

\* the directory loses a conversation during the gesture
GestureDelete ==
    /\ script # <<>>
    /\ Last(script) # "end"
    /\ Cardinality(GestureChannels \ channelStore) < MaxMissing
    /\ \E id \in channelStore \cap GestureDms :
          channelStore' = channelStore \ {id}
    /\ lastOp' = <<"env", NoChannel>>
    /\ Becomes(Now)
    /\ UNCHANGED <<selectedChannel, instantSwitch, indicatorVars, pc, scriptVars>>

\* the settings button pressed once during the gesture
GestureClear ==
    /\ script # <<>>
    /\ Last(script) # "end"
    /\ "clear" \notin Range(script)
    /\ Becomes(clearMru(Now))
    /\ lastOp' = <<"clear", NoChannel>>
    /\ script' = Append(script, "clear")
    /\ UNCHANGED <<envVars, pc, startMru>>

GestureEnd ==
    /\ script # <<>>
    /\ Last(script) # "end"
    /\ Becomes(endCycleSession(Now))
    /\ lastOp' = <<"end", NoChannel>>
    /\ script' = Append(script, "end")
    /\ UNCHANGED <<envVars, pc, startMru>>

GestureNext ==
    \/ GestureBegin
    \/ GestureStep
    \/ GestureDelete
    \/ GestureClear
    \/ GestureEnd

SpecGesture == GestureInit /\ [][GestureNext]_vars

----------------------------------------------------------------------------
(* pushChannelToFront as a function: applied at most MaxPromotes times to  *)
(* any History List the plugin can hold over a directory with more direct  *)
(* conversations than MAX_HISTORY                                          *)

\* the most promotes of one recorded run
MaxPromotes == 2

PromoteIds == {"A", "B", "C", "D", "E"}

PromoteInit ==
    /\ mruDmChannelIds \in DistinctSeqsUpTo(PromoteIds, MAX_HISTORY)
    /\ isCyclingSessionActive = FALSE
    /\ suppressMruWhileCycling = FALSE
    /\ cycleSnapshot = <<>>
    /\ cycleIndex = -1
    /\ channelStore = AllChannels
    /\ selectedChannel = NoChannel
    /\ instantSwitch = TRUE
    /\ visualStyle = "overlay"
    /\ overlayMode = "row"
    /\ overlayRowLength = 5
    /\ pc = "running"
    /\ lastOp = <<"init", NoChannel>>
    /\ promoted = <<>>
    /\ navigated = <<>>
    /\ rendered = NoRender
    /\ startMru = mruDmChannelIds
    /\ script = <<>>

Promote ==
    /\ Len(script) < MaxPromotes
    /\ \E channelId \in PromoteIds :
          /\ Becomes(pushChannelToFront(Now, channelId))
          /\ lastOp' = <<"promote", channelId>>
          /\ script' = Append(script, channelId)
    /\ UNCHANGED <<envVars, pc, startMru>>

PromoteNext == Promote

SpecPromote == PromoteInit /\ [][PromoteNext]_vars

----------------------------------------------------------------------------
(* sanitizeHistory as a function: applied, as start() applies it, to any   *)
(* persisted array of at most MaxInputLen entries, over any directory with *)
(* at most MaxMissing conversations missing                                *)

\* the longest array handed to sanitizeHistory
MaxInputLen == 4

SanitizeInit ==
    /\ mruDmChannelIds = <<>>
    /\ isCyclingSessionActive = FALSE
    /\ suppressMruWhileCycling = FALSE
    /\ cycleSnapshot = <<>>
    /\ cycleIndex = -1
    /\ channelStore \in {GestureChannels \ missing :
                            missing \in {m \in SUBSET GestureChannels :
                                            Cardinality(m) <= MaxMissing}}
    /\ selectedChannel = NoChannel
    /\ instantSwitch = TRUE
    /\ visualStyle = "overlay"
    /\ overlayMode = "row"
    /\ overlayRowLength = 5
    /\ pc = "loading"
    /\ lastOp = <<"init", NoChannel>>
    /\ promoted = <<>>
    /\ navigated = <<>>
    /\ rendered = NoRender
    /\ startMru \in SeqsUpTo(GestureChannels \cup {NoChannel}, MaxInputLen)
    /\ script = <<>>

\* mruDmChannelIds = sanitizeHistory(saved)
Sanitize ==
    /\ script = <<>>
    /\ Becomes([Now EXCEPT !.mru = sanitizeHistory(startMru)])
    /\ lastOp' = <<"sanitize", NoChannel>>
    /\ script' = <<"sanitize">>
    /\ UNCHANGED <<envVars, pc, startMru>>

SanitizeNext == Sanitize

SpecSanitize == SanitizeInit /\ [][SanitizeNext]_vars

----------------------------------------------------------------------------
(* The snapshot as a function of the list, the current conversation and    *)
(* the directory: one gesture, begun over any list of up to MAX_HISTORY    *)
(* conversations of which up to MaxMissing are gone from the directory     *)

SnapshotInit ==
    /\ mruDmChannelIds \in DistinctSeqsUpTo(GestureDms, MAX_HISTORY)
    /\ isCyclingSessionActive = FALSE
    /\ suppressMruWhileCycling = FALSE
    /\ cycleSnapshot = <<>>
    /\ cycleIndex = -1
    /\ \E missing \in SUBSET GestureDms :
          /\ Cardinality(missing) <= MaxMissing
          /\ channelStore = GestureChannels \ missing
    /\ selectedChannel \in GestureChannels \cup {NoChannel}
    /\ instantSwitch \in BOOLEAN
    /\ visualStyle = "overlay"
    /\ overlayMode = "row"
    /\ overlayRowLength = 5
    /\ pc = "running"
    /\ lastOp = <<"init", NoChannel>>
    /\ promoted = <<>>
    /\ navigated = <<>>
    /\ rendered = NoRender
    /\ startMru = mruDmChannelIds
    /\ script = <<>>

SnapshotBegin ==
    /\ script = <<>>
    /\ Becomes(beginCycleSession(Now))
    /\ lastOp' = <<"begin", NoChannel>>
    /\ script' = <<"begin">>
    /\ UNCHANGED <<envVars, pc, startMru>>

SnapshotStep ==
    /\ script # <<>>
    /\ Last(script) # "end"
    /\ Len(script) <= MaxSteps
    /\ \E direction \in {1, -1} :
          LET name == IF direction = 1 THEN "forward" ELSE "backward" IN
          /\ Becomes(stepCycle(Now, direction))
          /\ lastOp' = <<"step", name>>
          /\ script' = Append(script, name)
    /\ UNCHANGED <<envVars, pc, startMru>>

SnapshotEnd ==
    /\ script # <<>>
    /\ Last(script) # "end"
    /\ Becomes(endCycleSession(Now))
    /\ lastOp' = <<"end", NoChannel>>
    /\ script' = Append(script, "end")
    /\ UNCHANGED <<envVars, pc, startMru>>

SnapshotNext ==
    \/ SnapshotBegin
    \/ SnapshotStep
    \/ SnapshotEnd

SpecSnapshot == SnapshotInit /\ [][SnapshotNext]_vars

----------------------------------------------------------------------------
(* One gesture at the keyboard: Ctrl held, Tab pressed up to MaxPresses    *)
(* times with or without Shift, Ctrl released; script records the presses  *)

MaxPresses == 4

PressInit == SnapshotInit

PressKeyDown ==
    /\ "end" \notin Range(script)
    /\ Len(script) < MaxPresses
    /\ \E shiftKey \in BOOLEAN :
          LET name == IF shiftKey THEN "backward" ELSE "forward" IN
          /\ Becomes(keyDown(Now, shiftKey))
          /\ lastOp' = <<"keydown", name>>
          /\ script' = Append(script, name)
    /\ UNCHANGED <<envVars, pc, startMru>>

PressKeyUp ==
    /\ "end" \notin Range(script)
    /\ Becomes(endCycleSession(Now))
    /\ lastOp' = <<"end", NoChannel>>
    /\ script' = Append(script, "end")
    /\ UNCHANGED <<envVars, pc, startMru>>

PressNext ==
    \/ PressKeyDown
    \/ PressKeyUp

SpecPress == PressInit /\ [][PressNext]_vars

----------------------------------------------------------------------------
(* The start of the plugin with CHANNEL_SELECT dispatched while            *)
(* DataStore.get is pending; script records the conversations that         *)
(* CHANNEL_SELECT promoted during the load                                 *)

MaxLoadSelects == 2

LoadInit ==
    /\ mruDmChannelIds = <<>>
    /\ isCyclingSessionActive = FALSE
    /\ suppressMruWhileCycling = FALSE
    /\ cycleSnapshot = <<>>
    /\ cycleIndex = -1
    /\ channelStore = AllChannels
    /\ selectedChannel \in AllChannels \cup {NoChannel}
    /\ instantSwitch = TRUE
    /\ visualStyle = "overlay"
    /\ overlayMode = "row"
    /\ overlayRowLength = 5
    /\ pc = "stopped"
    /\ lastOp = <<"init", NoChannel>>
    /\ promoted = <<>>
    /\ navigated = <<>>
    /\ rendered = NoRender
    /\ startMru = <<>>
    /\ script = <<>>

\* start() runs up to its await
LoadStart ==
    /\ pc = "stopped"
    /\ pc' = "loading"
    /\ lastOp' = <<"start", NoChannel>>
    /\ Becomes(Now)
    /\ UNCHANGED <<envVars, scriptVars>>

\* a CHANNEL_SELECT dispatched while DataStore.get is pending
LoadChannelSelect ==
    /\ pc = "loading"
    /\ Len(script) < MaxLoadSelects
    /\ \E channelId \in AllChannels \cup {NoChannel} :
          LET handled == channelSelect(Now, channelId) IN
          /\ selectedChannel' = channelId
          /\ Becomes(handled)
          /\ lastOp' = <<"CHANNEL_SELECT", channelId>>
          /\ script' = IF handled.promoted # <<>> THEN Append(script, channelId) ELSE script
    /\ UNCHANGED <<channelStore, instantSwitch, indicatorVars, pc, startMru>>

\* DataStore.get completes and start() runs to its end
LoadComplete ==
    /\ pc = "loading"
    /\ \E isArray \in BOOLEAN, saved \in SeqsUpTo(AllChannels \cup {NoChannel}, MaxSavedLen) :
          /\ Becomes(startLoaded(Now, isArray, saved))
          /\ lastOp' = <<"loaded", IF isArray THEN "array" ELSE "not-an-array">>
    /\ pc' = "running"
    /\ UNCHANGED <<envVars, scriptVars>>

LoadNext ==
    \/ LoadStart
    \/ LoadChannelSelect
    \/ LoadComplete

SpecLoad == LoadInit /\ [][LoadNext]_vars

----------------------------------------------------------------------------
(* The overlay as a function of the session: stepCycle, which renders the  *)
(* overlay, applied to an open session over any snapshot of at most        *)
(* MaxOverlayLen conversations, any cursor, mode and row length            *)

\* the longest snapshot shown: more than two pages of the longest row
MaxOverlayLen == 15

\* the conversations of the snapshot, most recent first
OverlayIds == <<"c01", "c02", "c03", "c04", "c05", "c06", "c07", "c08", "c09",
               "c10", "c11", "c12", "c13", "c14", "c15", "c16", "c17", "c18">>

\* the values of the overlayRowLength setting, some outside the slider
OverlayRowLengths == {2, 3, 4, 5, 6, 7, 8}

OverlayInit ==
    /\ \E n \in 1..MaxOverlayLen : cycleSnapshot = SubSeq(OverlayIds, 1, n)
    /\ mruDmChannelIds = cycleSnapshot
    /\ isCyclingSessionActive = TRUE
    /\ suppressMruWhileCycling = TRUE
    /\ cycleIndex \in 0..(Len(cycleSnapshot) - 1)
    /\ channelStore = Range(OverlayIds)
    /\ selectedChannel = cycleSnapshot[1]
    /\ instantSwitch = TRUE
    /\ visualStyle = "overlay"
    /\ overlayMode \in {"row", "current"}
    /\ overlayRowLength \in OverlayRowLengths
    /\ pc = "running"
    /\ lastOp = <<"init", NoChannel>>
    /\ promoted = <<>>
    /\ navigated = <<>>
    /\ rendered = NoRender
    /\ startMru = <<>>
    /\ script = <<>>

OverlayStep ==
    /\ \E direction \in {1, -1} :
          /\ Becomes(stepCycle(Now, direction))
          /\ lastOp' = <<"step", IF direction = 1 THEN "forward" ELSE "backward">>
    /\ UNCHANGED <<envVars, pc, scriptVars>>

OverlayNext == OverlayStep

SpecOverlay == OverlayInit /\ [][OverlayNext]_vars

----------------------------------------------------------------------------
(* Claims                                                                  *)

\* the handler that made the last transition
Op == lastOp[1]

\* the argument of that handler
Arg == lastOp[2]

\* the first n entries of q
Prefix(q, n) == IF Len(q) > n THEN SubSeq(q, 1, n) ELSE q

\* the signals other than end(), clear() and stop() that reach the plugin
\* while a session is open, and the changes of the directory and settings
SessionSignals == {"begin", "step", "keydown", "CHANNEL_SELECT", "GUILD_SELECT", "env"}

\* the cursor and snapshot of the scenario History List [B,C], current A,
\* begin(); step(forward); step(forward); step(backward)
ScenarioSteps ==
    /\ script = <<"begin">> =>
           cycleSnapshot = <<"A", "B", "C">> /\ cycleIndex = 0
    /\ script = <<"begin", "forward">> => cycleIndex = 1
    /\ script = <<"begin", "forward", "forward">> => cycleIndex = 2
    /\ script = <<"begin", "forward", "forward", "backward">> =>
           cycleIndex = 1 /\ cycleSnapshot = <<"A", "B", "C">>

ScenarioStart == startMru = <<"B", "C">> /\ selectedChannel = "A"

ScenarioDone == script = <<"begin", "forward", "forward", "backward", "end">>

\* C1 as claimed: from Idle with History List [B,C] and the eligible current
\* conversation A, begin() takes the snapshot [A,B,C]; step(forward),
\* step(forward), step(backward) leave the cursor at 1, 2 and 1; the closing
\* end() leaves the History List [B,A,C].  (SpecGesture)
C1_Original ==
    ScenarioStart =>
        /\ ScenarioSteps
        /\ ScenarioDone => mruDmChannelIds = <<"B", "A", "C">>

\* C1: from Idle with History List [B,C] and the eligible current
\* conversation A, begin() takes the snapshot [A,B,C]; step(forward),
\* step(forward), step(backward) leave the cursor at 1, 2 and 1; the closing
\* end() promotes B only and leaves the History List [B,C].  (SpecGesture)
C1_Scenario ==
    ScenarioStart =>
        /\ ScenarioSteps
        /\ ScenarioDone =>
               (mruDmChannelIds = <<"B", "C">> /\ promoted = <<"B">>)

C1_Witness ==
    /\ ScenarioStart
    /\ ScenarioDone
    /\ mruDmChannelIds = <<"B", "C">>

\* C2: while a session is Active no begin, step, key-down, CHANNEL_SELECT or
\* GUILD_SELECT promotes anything or changes the History List; the end() of
\* a session with a non-empty snapshot promotes exactly one identifier, the
\* one at the cursor, which is then the front of the History List.  (Spec)
C2_SingleCommit ==
    [][ /\ (isCyclingSessionActive /\ Op' \in SessionSignals) =>
               (promoted' = <<>> /\ mruDmChannelIds' = mruDmChannelIds)
        /\ (isCyclingSessionActive /\ cycleSnapshot # <<>> /\ Op' = "end") =>
               /\ cycleIndex \in 0..(Len(cycleSnapshot) - 1)
               /\ promoted' = <<cycleSnapshot[cycleIndex + 1]>>
               /\ mruDmChannelIds'[1] = cycleSnapshot[cycleIndex + 1]
      ]_vars

C2_Witness ==
    /\ Op = "end"
    /\ Len(promoted) = 1
    /\ Len(mruDmChannelIds) >= 2
    /\ selectedChannel \in DmChannels
    /\ selectedChannel # mruDmChannelIds[1]

\* C3: as long as the session stays Active, no begin, step, key-down,
\* CHANNEL_SELECT, GUILD_SELECT or change of the directory or the settings
\* changes the snapshot.  (Spec)
C3_SnapshotFrozen ==
    [][ (isCyclingSessionActive /\ Op' \in SessionSignals) =>
            cycleSnapshot' = cycleSnapshot ]_vars

C3_Witness ==
    /\ isCyclingSessionActive
    /\ Op = "step"
    /\ Len(cycleSnapshot) >= 2
    /\ ~(Range(cycleSnapshot) \subseteq channelStore)

\* C4: a CHANNEL_SELECT delivered while a session is Active leaves the
\* History List unchanged; delivered to the started plugin while Idle, for
\* a direct or group conversation of the directory, it puts that
\* conversation at the front and keeps the others in order.  (Spec)
C4_SuppressedWhileActive ==
    [][ Op' = "CHANNEL_SELECT" =>
          /\ isCyclingSessionActive =>
                 (mruDmChannelIds' = mruDmChannelIds /\ promoted' = <<>>)
          /\ (~isCyclingSessionActive /\ fluxSubscribed
                 /\ isDirectMessageChannel(Arg')) =>
                 /\ promoted' = <<Arg'>>
                 /\ mruDmChannelIds' =
                        Prefix(<<Arg'>> \o FilterOut(mruDmChannelIds, Arg'), MAX_HISTORY)
      ]_vars

C4_Witness ==
    /\ Op = "CHANNEL_SELECT"
    /\ isCyclingSessionActive
    /\ isDirectMessageChannel(Arg)
    /\ Arg \notin Range(mruDmChannelIds)

\* C5 as claimed: right after clear() the session is not Active and the
\* suppression of CHANNEL_SELECT promotion is off.  (Spec)
C5_ClearForcesIdle ==
    Op = "clear" => (~isCyclingSessionActive /\ ~suppressMruWhileCycling)

\* C6: once clear() has run inside a gesture, every later step() and the
\* closing end() promote nothing and the History List stays empty.
\* (SpecGesture)
C6_NoCommitAfterClear ==
    "clear" \in Range(script) =>
        /\ mruDmChannelIds = <<>>
        /\ promoted = <<>>
        /\ cycleSnapshot = <<>>

C6_Witness ==
    /\ Len(startMru) >= 2
    /\ Len(script) >= 5
    /\ script[2] = "forward"
    /\ script[3] = "clear"
    /\ script[4] \in {"forward", "backward"}
    /\ Last(script) = "end"
    /\ mruDmChannelIds = <<>>

\* C7 as claimed: every identifier a handler passes to pushChannelToFront
\* is, at that moment, a direct or group conversation of the directory.
\* (Spec)
C7_InsertedResolves ==
    \A i \in 1..Len(promoted) : isDirectMessageChannel(promoted[i])

\* C8: the History List never holds an identifier twice.  (Spec)
C8_NoDuplicates == NoDuplicates(mruDmChannelIds)

C8_Witness ==
    /\ Op = "CHANNEL_SELECT"
    /\ promoted = <<Arg>>
    /\ Len(mruDmChannelIds) = Cardinality(DmChannels)

\* C9: the History List never has more than MAX_HISTORY entries; a promote
\* of an identifier that is not in a full list puts it at the front and
\* drops the last entry, the others keeping their order.  (SpecPromote)
C9_Bounded ==
    /\ Len(mruDmChannelIds) <= MAX_HISTORY
    /\ (Len(script) = 1 /\ Len(startMru) = MAX_HISTORY
            /\ script[1] \notin Range(startMru)) =>
           mruDmChannelIds = <<script[1]>> \o SubSeq(startMru, 1, MAX_HISTORY - 1)

C9_Witness ==
    /\ Len(script) = 1
    /\ Len(startMru) = MAX_HISTORY
    /\ script[1] \notin Range(startMru)
    /\ Len(mruDmChannelIds) = MAX_HISTORY

\* the run promote(x); promote(x)
PromotedTwice == Len(script) = 2 /\ script[1] = script[2]

\* C10 as claimed: the second promote(x) of promote(x); promote(x) changes
\* nothing, and the list is then x at the front followed by the other
\* members of the starting list in their order.  (SpecPromote)
C10_Original ==
    /\ [](PromotedTwice =>
             mruDmChannelIds = <<script[1]>> \o FilterOut(startMru, script[1]))
    /\ [][ (Len(script) = 1 /\ script' = <<script[1], script[1]>>) =>
               mruDmChannelIds' = mruDmChannelIds ]_vars

\* C10: the second promote(x) of promote(x); promote(x) changes nothing,
\* and the list is then x at the front followed by the other members of the
\* starting list in their order, cut to MAX_HISTORY entries.  (SpecPromote)
C10_Idempotent ==
    /\ [](PromotedTwice =>
             mruDmChannelIds =
                 Prefix(<<script[1]>> \o FilterOut(startMru, script[1]), MAX_HISTORY))
    /\ [][ (Len(script) = 1 /\ script' = <<script[1], script[1]>>) =>
               mruDmChannelIds' = mruDmChannelIds ]_vars

C10_Witness ==
    /\ PromotedTwice
    /\ Len(startMru) = MAX_HISTORY
    /\ script[1] \in Range(startMru)
    /\ script[1] # startMru[1]

\* n forward steps
Forwards(n) == [i \in 1..n |-> "forward"]

\* C11: over a snapshot of n >= 2 entries and from cursor 0, n forward
\* steps bring the cursor back to 0, one backward step puts it at n - 1, and
\* a forward step and a backward step in either order restore it, whether
\* or not the entries still exist in the directory.  (SpecGesture)
C11_Wraparound ==
    LET n == Len(cycleSnapshot) IN
    (n >= 2 /\ isCyclingSessionActive) =>
        /\ script = <<"begin">> \o Forwards(n) => cycleIndex = 0
        /\ script = <<"begin", "backward">> => cycleIndex = n - 1
        /\ script = <<"begin", "forward", "backward">> => cycleIndex = 0
        /\ script = <<"begin", "backward", "forward">> => cycleIndex = 0
        /\ script = <<"begin", "forward", "forward", "backward">> => cycleIndex = 1
        /\ script = <<"begin", "backward", "backward", "forward">> => cycleIndex = n - 1

C11_Witness ==
    /\ Len(cycleSnapshot) = 3
    /\ script = <<"begin">> \o Forwards(3)
    /\ cycleIndex = 0
    /\ cycleSnapshot[1] \notin channelStore

\* the module-level state of the plugin
pluginVars == <<mruDmChannelIds, isCyclingSessionActive, suppressMruWhileCycling,
                cycleSnapshot, cycleIndex>>

\* the last handler promoted nothing, navigated nowhere and showed nothing
NoEffects == promoted = <<>> /\ navigated = <<>> /\ rendered = NoRender

\* C12: step() and end() while Idle change no state and have no effect;
\* begin() while Active changes no state; an end() right after an end()
\* promotes nothing.  (Spec)
C12_OutOfOrderNoOps ==
    [][ /\ (~isCyclingSessionActive /\ Op' \in {"step", "end"}) =>
               (UNCHANGED pluginVars /\ NoEffects')
        /\ (isCyclingSessionActive /\ Op' = "begin") =>
               (UNCHANGED pluginVars /\ NoEffects')
        /\ (Op = "end" /\ Op' = "end") =>
               (promoted' = <<>> /\ mruDmChannelIds' = mruDmChannelIds)
      ]_vars

C12_Witness ==
    /\ Op = "begin"
    /\ isCyclingSessionActive
    /\ cycleIndex > 0
    /\ selectedChannel \in DmChannels \cap channelStore
    /\ selectedChannel \notin Range(cycleSnapshot)

\* the positions of ids that hold the first occurrence of a non-empty
\* identifier of a direct or group conversation of the directory
FirstEligible(ids) ==
    {i \in 1..Len(ids) :
        /\ ids[i] # NoChannel
        /\ ids[i] \in channelStore
        /\ ChannelType(ids[i]) \in {"DM", "GROUP_DM"}
        /\ \A j \in 1..(i - 1) : ids[j] # ids[i]}

\* the k-th smallest member of the set S of numbers
Nth(S, k) == CHOOSE i \in S : Cardinality({j \in S : j < i}) = k - 1

\* C13: sanitizeHistory returns the first occurrences of the non-empty
\* identifiers of direct or group conversations of the directory, in the
\* order of the input, cut to the first MAX_HISTORY of them; no identifier
\* is repeated.  (SpecSanitize)
C13_Sanitize ==
    script = <<"sanitize">> =>
        LET kept == FirstEligible(startMru) IN
        /\ Len(mruDmChannelIds) = Min(MAX_HISTORY, Cardinality(kept))
        /\ \A k \in 1..Len(mruDmChannelIds) :
               mruDmChannelIds[k] = startMru[Nth(kept, k)]
        /\ NoDuplicates(mruDmChannelIds)

C13_Witness ==
    /\ script = <<"sanitize">>
    /\ Len(startMru) = 4
    /\ startMru[1] = startMru[3]
    /\ startMru[2] \notin channelStore
    /\ Len(mruDmChannelIds) = 2

\* the rendered overlay is the row of recent conversations
RowRendered == rendered.kind = "overlay" /\ overlayMode = "row"

\* the row length clamped to [3,7]
RowPageSize ==
    IF overlayRowLength < 3 THEN 3
    ELSE IF overlayRowLength > 7 THEN 7
    ELSE overlayRowLength

\* the length of the working list: the first two pages of the snapshot
WorkingLen ==
    IF Len(cycleSnapshot) < 2 * RowPageSize THEN Len(cycleSnapshot) ELSE 2 * RowPageSize

RowPageCount == IF WorkingLen > RowPageSize THEN 2 ELSE 1

RowCurrentPage ==
    IF cycleIndex \div RowPageSize < RowPageCount - 1
    THEN cycleIndex \div RowPageSize
    ELSE RowPageCount - 1

\* the snapshot indices [from, to) of the window, counted from 0
RowFrom == RowCurrentPage * RowPageSize
RowTo ==
    IF (RowCurrentPage + 1) * RowPageSize < WorkingLen
    THEN (RowCurrentPage + 1) * RowPageSize
    ELSE WorkingLen

\* C14: in row mode the displayed window is the snapshot entries at the
\* indices [currentPage * pageSize, min((currentPage + 1) * pageSize,
\* |workingList|)), with pageSize the row length clamped to [3,7], the
\* working list the first min(2 * pageSize, |snapshot|) entries, pageCount
\* 2 if the working list is longer than a page and else 1, and currentPage
\* min(pageCount - 1, cursor div pageSize); length 8, pageSize 5, cursor 6
\* shows page 1, indices [5,8); no entry at index 2 * pageSize or beyond is
\* shown.  (SpecOverlay)
C14_RowWindow ==
    RowRendered =>
        /\ rendered.pageCount = RowPageCount
        /\ rendered.currentPage = RowCurrentPage
        /\ Len(rendered.items) = (IF RowTo > RowFrom THEN RowTo - RowFrom ELSE 0)
        /\ \A k \in 1..Len(rendered.items) :
               rendered.items[k] = cycleSnapshot[RowFrom + k]
        /\ \A k \in 1..Len(rendered.items) :
               \A i \in 1..Len(cycleSnapshot) :
                   cycleSnapshot[i] = rendered.items[k] => i - 1 < 2 * RowPageSize
        /\ (Len(cycleSnapshot) = 8 /\ overlayRowLength = 5 /\ cycleIndex = 6) =>
               /\ rendered.currentPage = 1
               /\ rendered.items = <<cycleSnapshot[6], cycleSnapshot[7], cycleSnapshot[8]>>

C14_Witness ==
    /\ RowRendered
    /\ Len(cycleSnapshot) = 8
    /\ overlayRowLength = 5
    /\ cycleIndex = 6
    /\ rendered.items = <<"c06", "c07", "c08">>
    /\ rendered.pageCount = 2

\* the cursor refers to an entry of the snapshot
CursorOnEntry == cycleIndex >= 0 /\ cycleIndex < Len(cycleSnapshot)

\* C15: GUILD_SELECT with a guild id delivered to an Active session
\* requests navigation to the identifier at the cursor (once, and to
\* nothing when the cursor holds no identifier) and leaves the cursor, the
\* snapshot, the session flags and the History List unchanged; delivered
\* while Idle it changes nothing and requests nothing.  (Spec)
C15_ForcedNavigation ==
    [][ (Op' = "GUILD_SELECT") =>
           /\ UNCHANGED pluginVars
           /\ promoted' = <<>>
           /\ rendered' = NoRender
           /\ (isCyclingSessionActive /\ Arg' # NoChannel /\ CursorOnEntry) =>
                  navigated' = <<cycleSnapshot[cycleIndex + 1]>>
           /\ (isCyclingSessionActive /\ Arg' # NoChannel /\ ~CursorOnEntry) =>
                  navigated' = <<>>
           /\ ~isCyclingSessionActive => navigated' = <<>>
      ]_vars

C15_Witness ==
    /\ Op = "GUILD_SELECT"
    /\ Arg # NoChannel
    /\ isCyclingSessionActive
    /\ cycleIndex = 2
    /\ navigated = <<cycleSnapshot[3]>>
    /\ selectedChannel # cycleSnapshot[3]

\* the last handler ran stepCycle
Stepped == Op \in {"step", "keydown"}

\* the last handler navigated once, to the identifier at the cursor
NavigatedToCursor ==
    /\ Len(navigated) = 1
    /\ CursorOnEntry
    /\ navigated[1] = cycleSnapshot[cycleIndex + 1]

\* the last handler ran stepCycle in a session of two or more entries, so
\* that the cursor moved
SteppedOn == Stepped /\ isCyclingSessionActive /\ Len(cycleSnapshot) > 1

\* C16 as stated: with instantSwitch every step() of a session navigates
\* to the identifier at the new cursor and end() does not navigate;
\* without it no step() navigates and end() of a session navigates exactly
\* once, to the identifier at the final cursor.  (Spec)
C16_Original ==
    [][ /\ (instantSwitch' /\ Stepped' /\ isCyclingSessionActive') => NavigatedToCursor'
        /\ (instantSwitch' /\ Op' = "end") => navigated' = <<>>
        /\ (~instantSwitch' /\ Stepped') => navigated' = <<>>
        /\ (~instantSwitch' /\ Op' = "end" /\ isCyclingSessionActive) =>
               /\ Len(navigated') = 1
               /\ CursorOnEntry
               /\ navigated'[1] = cycleSnapshot[cycleIndex + 1]
      ]_vars

\* C16: with instantSwitch every step() that moves the cursor onto an
\* identifier that still resolves navigates to it, exactly once, every
\* other step() navigates nowhere, and end() does not navigate; without
\* instantSwitch no step() navigates, and end() of a session navigates
\* exactly once, to the identifier at the final cursor, when the cursor
\* refers to a snapshot entry, and nowhere otherwise.  (Spec)
C16_InstantSwitch ==
    [][ /\ (instantSwitch' /\ SteppedOn'
              /\ cycleSnapshot'[cycleIndex' + 1] \in channelStore') =>
               NavigatedToCursor'
        /\ (instantSwitch' /\ Stepped'
              /\ ~(SteppedOn' /\ cycleSnapshot'[cycleIndex' + 1] \in channelStore')) =>
               navigated' = <<>>
        /\ (instantSwitch' /\ Op' = "end") => navigated' = <<>>
        /\ (~instantSwitch' /\ Stepped') => navigated' = <<>>
        /\ (~instantSwitch' /\ Op' = "end" /\ isCyclingSessionActive /\ CursorOnEntry) =>
               navigated' = <<cycleSnapshot[cycleIndex + 1]>>
        /\ (~instantSwitch' /\ Op' = "end" /\ ~(isCyclingSessionActive /\ CursorOnEntry)) =>
               navigated' = <<>>
      ]_vars

C16_Witness ==
    /\ Stepped
    /\ instantSwitch
    /\ cycleIndex = 2
    /\ navigated = <<cycleSnapshot[3]>>

\* the current conversation is a direct or group conversation of the directory
CurrentEligible ==
    /\ selectedChannel # NoChannel
    /\ selectedChannel \in channelStore
    /\ ChannelType(selectedChannel) \in {"DM", "GROUP_DM"}

\* the eligible current conversation followed by the History List the
\* gesture started with
Candidates == (IF CurrentEligible THEN <<selectedChannel>> ELSE <<>>) \o startMru

\* C17: begin() from Idle sets the snapshot to the first occurrences of the
\* eligible entries of (current conversation if eligible, then the History
\* List), cut to MAX_HISTORY, and the cursor to 0: the snapshot has no
\* duplicates, at most MAX_HISTORY entries and the eligible current
\* conversation at index 0; with History List [] and eligible current A
\* the snapshot is [A], step(forward) changes nothing and end() leaves the
\* History List [A].  (SpecSnapshot)
C17_BeginSnapshot ==
    /\ script = <<"begin">> =>
          LET kept == FirstEligible(Candidates) IN
          /\ isCyclingSessionActive
          /\ cycleIndex = 0
          /\ Len(cycleSnapshot) = Min(MAX_HISTORY, Cardinality(kept))
          /\ \A k \in 1..Len(cycleSnapshot) :
                 cycleSnapshot[k] = Candidates[Nth(kept, k)]
          /\ NoDuplicates(cycleSnapshot)
          /\ Len(cycleSnapshot) <= MAX_HISTORY
          /\ CurrentEligible => cycleSnapshot[1] = selectedChannel
          /\ mruDmChannelIds = startMru
    /\ (startMru = <<>> /\ selectedChannel = "A" /\ CurrentEligible) =>
          /\ script = <<"begin">> => (cycleSnapshot = <<"A">> /\ cycleIndex = 0)
          /\ script = <<"begin", "forward">> =>
                 /\ cycleSnapshot = <<"A">>
                 /\ cycleIndex = 0
                 /\ isCyclingSessionActive
                 /\ mruDmChannelIds = <<>>
                 /\ NoEffects
          /\ script = <<"begin", "forward", "end">> => mruDmChannelIds = <<"A">>

C17_Witness ==
    /\ script = <<"begin">>
    /\ CurrentEligible
    /\ selectedChannel \notin Range(startMru)
    /\ \E i \in 1..Len(startMru) : startMru[i] \notin channelStore
    /\ Len(cycleSnapshot) = Len(startMru)
    /\ Len(cycleSnapshot) >= 2
    /\ cycleSnapshot[1] = selectedChannel

\* the direction of the last step: +1 forward, -1 backward
Delta == IF Arg = "forward" THEN 1 ELSE -1

\* C18: a step() of a session that moves the cursor onto an identifier
\* that no longer resolves leaves the cursor at that position, one step
\* from where it was, produces no navigation and no render descriptor,
\* commits nothing to the History List and leaves the session Active with
\* its snapshot.  (Spec)
C18_StepOntoDead ==
    [][ (/\ Stepped'
         /\ isCyclingSessionActive
         /\ Len(cycleSnapshot) > 1
         /\ cycleSnapshot[((cycleIndex + Delta' + Len(cycleSnapshot)) % Len(cycleSnapshot)) + 1]
                \notin channelStore) =>
           /\ cycleIndex' = (cycleIndex + Delta' + Len(cycleSnapshot)) % Len(cycleSnapshot)
           /\ cycleSnapshot' = cycleSnapshot
           /\ navigated' = <<>>
           /\ rendered' = NoRender
           /\ promoted' = <<>>
           /\ mruDmChannelIds' = mruDmChannelIds
           /\ isCyclingSessionActive'
           /\ suppressMruWhileCycling'
      ]_vars

C18_Witness ==
    /\ Stepped
    /\ isCyclingSessionActive
    /\ Len(cycleSnapshot) = 3
    /\ cycleIndex = 1
    /\ cycleSnapshot[2] \notin channelStore
    /\ instantSwitch
    /\ visualStyle = "overlay"
    /\ NoEffects

\* C19: in every reachable state the cursor is the sentinel -1 or an index
\* into the snapshot, 0 <= cursor < |snapshot|, also right after a begin()
\* for which neither the current conversation nor any History List entry
\* is eligible.  (Spec)
C19_CursorValid ==
    cycleIndex = -1 \/ (0 <= cycleIndex /\ cycleIndex < Len(cycleSnapshot))

\* the signals of the gesture, of a conversation switch and of a forced
\* navigation, end() left out
OpenSignals == {"begin", "step", "keydown", "CHANNEL_SELECT", "GUILD_SELECT"}

\* C20: an Active session stays Active, with suppression on, under every
\* begin, step, key-down, CHANNEL_SELECT and GUILD_SELECT; a session goes
\* from Active to Idle only in end() or stop(): no other handler, and no
\* passing of time, closes it.  (Spec)
C20_StaysActive ==
    [][ /\ (isCyclingSessionActive /\ Op' \in OpenSignals) =>
               (isCyclingSessionActive' /\ suppressMruWhileCycling')
        /\ (isCyclingSessionActive /\ ~isCyclingSessionActive') =>
               Op' \in {"end", "stop"}
        /\ (isCyclingSessionActive /\ Op' \notin {"end", "stop"}) =>
               (isCyclingSessionActive' /\ suppressMruWhileCycling')
      ]_vars

C20_Witness ==
    /\ Op = "GUILD_SELECT"
    /\ Arg # NoChannel
    /\ isCyclingSessionActive
    /\ suppressMruWhileCycling
    /\ Len(cycleSnapshot) >= 2
    /\ cycleIndex = Len(cycleSnapshot) - 1
    /\ selectedChannel = "G"

\* C21: in every reachable state suppressMruWhileCycling equals
\* isCyclingSessionActive: promotion by CHANNEL_SELECT is suppressed exactly
\* while a session is Active, across begin, end, clear and stop.  (Spec)
C21_SuppressIffActive == suppressMruWhileCycling = isCyclingSessionActive

C21_Witness ==
    /\ Op = "clear"
    /\ isCyclingSessionActive
    /\ suppressMruWhileCycling
    /\ cycleSnapshot = <<>>

\* C22: in every reachable state where the session is Idle the snapshot is
\* empty and the cursor is the sentinel -1: initially, after end(), after
\* stop() and after clear() while Idle.  (Spec)
C22_IdleIsEmpty ==
    ~isCyclingSessionActive => (cycleSnapshot = <<>> /\ cycleIndex = -1)

C22_Witness ==
    /\ Op = "end"
    /\ ~isCyclingSessionActive
    /\ cycleSnapshot = <<>>
    /\ cycleIndex = -1
    /\ Len(promoted) = 1
    /\ Len(mruDmChannelIds) = 3
    /\ promoted[1] \notin channelStore

\* the gesture so far is one or more presses, all in the direction dir
AllPresses(dir) ==
    /\ script # <<>>
    /\ \A i \in 1..Len(script) : script[i] = dir

\* C23: onKeyDown begins (if Idle) and steps in the same event: over a
\* snapshot of n >= 2 entries the cursor after k presses in one direction
\* is k mod n (forward) or (-k) mod n (backward); the first press gives
\* index 1 forward and never index 0.  (SpecPress)
C23_PressCursor ==
    Len(cycleSnapshot) >= 2 =>
        LET n == Len(cycleSnapshot)
            k == Len(script)
        IN /\ AllPresses("forward") => cycleIndex = k % n
           /\ AllPresses("backward") => cycleIndex = (n - (k % n)) % n
           /\ script = <<"forward">> => cycleIndex = 1
           /\ Len(script) = 1 => cycleIndex # 0

C23_Witness ==
    /\ script = <<"forward", "forward", "forward", "forward">>
    /\ Len(cycleSnapshot) = 3
    /\ cycleIndex = 1
    /\ isCyclingSessionActive

\* the places of the displayed window whose card is flagged active
ActivePlaces == {k \in 1..Len(rendered.isActive) : rendered.isActive[k]}

\* C24 as stated: in row mode, for every non-empty duplicate-free snapshot
\* and every valid cursor, the displayed window is non-empty, has at most
\* pageSize entries and exactly one entry flagged active, the identifier at
\* the cursor.  (SpecOverlay)
C24_Original ==
    RowRendered =>
        /\ Len(rendered.items) >= 1
        /\ Len(rendered.items) <= RowPageSize
        /\ Cardinality(ActivePlaces) = 1
        /\ \A k \in ActivePlaces : rendered.items[k] = cycleSnapshot[cycleIndex + 1]

\* C24: in row mode, for every non-empty duplicate-free snapshot and every
\* valid cursor, the displayed window is non-empty and has at most pageSize
\* entries; a cursor below 2 * pageSize has exactly one entry flagged
\* active, the identifier at the cursor; a cursor at 2 * pageSize or beyond
\* shows the second page with no entry flagged active.  (SpecOverlay)
C24_ActiveInWindow ==
    RowRendered =>
        /\ Len(rendered.items) >= 1
        /\ Len(rendered.items) <= RowPageSize
        /\ Len(rendered.isActive) = Len(rendered.items)
        /\ cycleIndex < 2 * RowPageSize =>
               /\ Cardinality(ActivePlaces) = 1
               /\ \A k \in ActivePlaces :
                      /\ rendered.items[k] = cycleSnapshot[cycleIndex + 1]
                      /\ k - 1 = cycleIndex - rendered.currentPage * RowPageSize
        /\ cycleIndex >= 2 * RowPageSize =>
               /\ ActivePlaces = {}
               /\ rendered.currentPage = 1
               /\ cycleSnapshot[cycleIndex + 1] \notin Range(rendered.items)

C24_Witness ==
    /\ RowRendered
    /\ overlayRowLength = 3
    /\ Len(cycleSnapshot) = 5
    /\ cycleIndex = 4
    /\ rendered.items = <<"c04", "c05">>
    /\ rendered.isActive = <<FALSE, TRUE>>

\* C25: a conversation promoted by a CHANNEL_SELECT delivered between the
\* call of start() and the completion of its load of the saved history is
\* still in the History List when the load has completed.  (SpecLoad)
C25_LoadKeepsPromoted ==
    Op = "loaded" =>
        \A i \in 1..Len(script) : script[i] \in Range(mruDmChannelIds)

====
